---- MODULE Spec2Model ----
(***************************************************************************)
(* Model of src/main.js: the four-scene narrative visualisation.           *)
(* State: the module-level variables of main.js, the DOM properties the    *)
(* script writes (title, buttons, indicator, the content of the canvas     *)
(* group g, the #metric-select dropdown) and the closure created by the    *)
(* latest renderScene4 call (yScale domain, marker circle).                *)
(* One action per event the event loop can deliver: resolution or          *)
(* rejection of d3.csv, a click on either button, a change of the          *)
(* dropdown, mouseover / mouseout on a hover-point.                        *)
(***************************************************************************)
EXTENDS Integers, Sequences, FiniteSets, TLC

\* ---------------------------------------------------------------- bounds
MaxRows == 2      \* rows of the CSV file
MaxYear == 2      \* largest numeral in a year cell

\* ------------------------------------------------------------- constants
NaN == -1         \* stands for the JavaScript NaN; every other number is >= 0

isNaN(x) == x = NaN

scenes == <<1, 2, 3, 4>>       \* renderScene1 .. renderScene4

options == <<"Urban Population", "Rural Population",
             "Energy Consumption", "CO2 Emissions">>

Absent == "absent"             \* no #metric-select element in the document
NoCall == -9                   \* the event made no goToScene call

ErrorTitle == "Error: Could not load data. Please check console."

SceneTitle(k) ==
    CASE k = 1 -> "Scene 1: The Global Urban Shift (1950-2020)"
      [] k = 2 -> "Scene 2: Urban Footprint - Global Energy Consumption"
      [] k = 3 -> "Scene 3: The CO2 Consequence"
      [] k = 4 -> "Scene 4: Explore the Data"

\* ------------------------------------------------------------- CSV input
\* A cell of the CSV file is text: a numeral, or text that is not a number.
Numeral(n) == ToString(n)
Malformed == "n/a"

MetricFields == {"urban_population_billion", "rural_population_billion",
                 "global_energy_consumption_quads", "global_co2_emission_gt"}
Fields == {"year"} \cup MetricFields

\* the number every well-formed cell of a metric column holds: one number per
\* column, so that the points of two metrics always differ
ColumnValue(f) ==
    CASE f = "urban_population_billion"        -> 1
      [] f = "rural_population_billion"        -> 2
      [] f = "global_energy_consumption_quads" -> 3
      [] f = "global_co2_emission_gt"          -> 4

Numbers == 0..(MaxYear + 4)

\* unary plus on a cell text (+d.year ...): the number a numeral denotes, NaN
\* for text that is not a number
ToNumber(s) ==
    IF \E n \in Numbers : Numeral(n) = s
    THEN CHOOSE n \in Numbers : Numeral(n) = s
    ELSE NaN

CellTexts(f) ==
    {Malformed} \cup
    (IF f = "year" THEN {Numeral(n) : n \in 1..MaxYear}
                   ELSE {Numeral(ColumnValue(f))})

\* the files considered have at most one malformed cell in a row
AtMostOneMalformed(r) ==
    \A f, h \in Fields : (r[f] = Malformed /\ r[h] = Malformed) => f = h

CsvRows == {r \in [Fields -> UNION {CellTexts(f) : f \in Fields}] :
              /\ \A f \in Fields : r[f] \in CellTexts(f)
              /\ AtMostOneMalformed(r)}

\* ... and one row per year
OneRowPerYear(data) ==
    \A i, j \in 1..Len(data) :
        (i # j /\ data[i]["year"] = data[j]["year"]) => data[i]["year"] = Malformed

CsvFiles == {data \in UNION {[1..n -> CsvRows] : n \in 0..MaxRows} :
               OneRowPerYear(data)}

\* data.map(d => ({year: +d.year, ...}))
ParseRow(d) == [f \in Fields |-> ToNumber(d[f])]
ParseCsv(data) == [i \in 1..Len(data) |-> ParseRow(data[i])]

\* ------------------------------------------------------------ pure parts
\* parseFloat(x) on a number x: x is first converted to its string, and the
\* longest numeric prefix of the string is parsed
NumberToString(x) == IF isNaN(x) THEN "NaN" ELSE Numeral(x)

parseFloat(x) == ToNumber(NumberToString(x))

accessors(metric, d) ==
    CASE metric = "Urban Population"   -> parseFloat(d["urban_population_billion"])
      [] metric = "Rural Population"   -> parseFloat(d["rural_population_billion"])
      [] metric = "Energy Consumption" -> parseFloat(d["global_energy_consumption_quads"])
      [] metric = "CO2 Emissions"      -> parseFloat(d["global_co2_emission_gt"])

\* rawData.map(d => ({year: +d.year, value: accessor(d)}))
MapPoints(data, metric) ==
    [i \in 1..Len(data) |-> [year |-> data[i]["year"], value |-> accessors(metric, data[i])]]

KeepPointValueOnly(p) == ~isNaN(p.value)

KeepPoint(p) == ~isNaN(p.year) /\ ~isNaN(p.value)

RECURSIVE Filter(_)
Filter(s) ==
    IF s = <<>> THEN <<>>
    ELSE IF KeepPoint(Head(s)) THEN <<Head(s)>> \o Filter(Tail(s))
         ELSE Filter(Tail(s))

ValidPoints(data, metric) == Filter(MapPoints(data, metric))

\* d3.extent(data, d => d.value) on a non-empty array of numbers; .nice()
\* leaves a domain with small whole-number ends as it is
Extent(pts) ==
    LET vs == {pts[i].value : i \in 1..Len(pts)}
    IN  << CHOOSE lo \in vs : \A v \in vs : lo <= v,
           CHOOSE hi \in vs : \A v \in vs : hi >= v >>

DefaultDomain == <<0, 1>>      \* domain of a fresh d3.scaleLinear()

\* updateNavigation
PrevDisabled(idx) == idx = 0
NextDisabledOffByOne(idx) == idx = Len(scenes)

NextDisabled(idx) == idx = Len(scenes) - 1
IndicatorText(idx) == <<idx + 1, Len(scenes)>>   \* `${idx + 1} of ${scenes.length}`

\* goToScene's bounds test
InBoundsNoUpper(index) == index >= 0 /\ index <= Len(scenes)

InBounds(index) == index >= 0 /\ index < Len(scenes)

\* ----------------------------------------------------------------- state
VARIABLES
    loadState,          \* d3.csv promise: "pending", "loaded", "failed"
    rawData, dataLoaded, currentSceneIndex,
    vizTitle, prevBtn, nextBtn, sceneIndicator,  \* prevBtn/nextBtn: disabled attribute
    gScene,             \* scene whose static elements fill g (0: g is empty)
    dataLines,          \* the .data-line paths in g, each a sequence of points
    hoverPoints,        \* the .hover-point circles in g
    metricSelect,       \* Absent, or the selected option of #metric-select
    yDomain,            \* domain of yScale in the closure of the live dropdown
    circle,             \* opacity of the marker circle of that closure
    hovered,            \* index of the hover-point under the pointer, 0 if none
    lastEvent,          \* the event handled by the latest step
    lastCall,           \* argument of the goToScene call it made, or NoCall
    invoked             \* number of the renderer it ran, 0 if none

vars == <<loadState, rawData, dataLoaded, currentSceneIndex, vizTitle, prevBtn,
          nextBtn, sceneIndicator, gScene, dataLines, hoverPoints, metricSelect,
          yDomain, circle, hovered, lastEvent, lastCall, invoked>>

navVars    == <<currentSceneIndex, vizTitle, prevBtn, nextBtn, sceneIndicator>>
canvasVars == <<gScene, dataLines, hoverPoints, hovered>>
sceneVars  == <<metricSelect, yDomain, circle>>

Init ==
    /\ loadState = "pending"
    /\ rawData = <<>>
    /\ dataLoaded = FALSE
    /\ currentSceneIndex = 0
    /\ vizTitle = ""
    /\ prevBtn \in BOOLEAN       \* the page's markup decides; the script sets
    /\ nextBtn \in BOOLEAN       \* neither attribute before the first render
    /\ sceneIndicator = <<>>
    /\ gScene = 0
    /\ dataLines = <<>>
    /\ hoverPoints = <<>>
    /\ metricSelect = Absent
    /\ yDomain = DefaultDomain
    /\ circle = 0
    /\ hovered = 0
    /\ lastEvent = "init"
    /\ lastCall = NoCall
    /\ invoked = 0

\* ------------------------------------------------------------- renderers
\* updateLine(metric) of the closure, on the rows `data`; cv is the record
\* of what it may change
updateLineNoAbort(metric, data, cv) ==
    LET pts == ValidPoints(data, metric)
    IN  [cv EXCEPT !.yDomain = IF Len(pts) = 0 THEN <<NaN, NaN>> ELSE Extent(pts),
                   !.dataLines = Append(<<>>, pts),
                   !.hoverPoints = pts,
                   !.hovered = 0]

updateLine(metric, data, cv) ==
    LET pts == ValidPoints(data, metric)
    IN  IF Len(pts) = 0 THEN cv
        ELSE [cv EXCEPT !.yDomain = Extent(pts),
                        !.dataLines = Append(<<>>, pts),
                        !.hoverPoints = pts,
                        !.hovered = 0]

Closure == [yDomain |-> yDomain, dataLines |-> dataLines,
            hoverPoints |-> hoverPoints, hovered |-> hovered]

SetClosure(cv) ==
    /\ yDomain' = cv.yDomain
    /\ dataLines' = cv.dataLines
    /\ hoverPoints' = cv.hoverPoints
    /\ hovered' = cv.hovered

updateNavigation(idx) ==
    /\ prevBtn' = PrevDisabled(idx)
    /\ nextBtn' = NextDisabled(idx)
    /\ sceneIndicator' = IndicatorText(idx)

\* renderScene1, renderScene2, renderScene3: clear g, title, draw, refresh
renderStatic(k, idx) ==
    /\ gScene' = k
    /\ dataLines' = <<>>
    /\ hoverPoints' = <<>>
    /\ hovered' = 0
    /\ vizTitle' = SceneTitle(k)
    /\ UNCHANGED sceneVars
    /\ updateNavigation(idx)

renderScene4(data, idx) ==
    /\ gScene' = 4
    /\ vizTitle' = SceneTitle(4)
    /\ metricSelect' = options[1]
    /\ circle' = 0
    /\ SetClosure(updateLine("Urban Population", data,
                             [yDomain |-> DefaultDomain, dataLines |-> <<>>,
                              hoverPoints |-> <<>>, hovered |-> 0]))
    /\ updateNavigation(idx)

goToScene(index, data) ==
    /\ lastCall' = index
    /\ IF InBounds(index)
       THEN /\ currentSceneIndex' = index
            /\ IF index + 1 \in DOMAIN scenes
               THEN /\ invoked' = scenes[index + 1]
                    /\ IF scenes[index + 1] = 4
                       THEN renderScene4(data, index)
                       ELSE renderStatic(scenes[index + 1], index)
               ELSE \* scenes[index] is undefined: the call throws a TypeError
                    /\ invoked' = 0
                    /\ UNCHANGED <<vizTitle, prevBtn, nextBtn, sceneIndicator,
                                   canvasVars, sceneVars>>
       ELSE /\ invoked' = 0
            /\ UNCHANGED <<navVars, canvasVars, sceneVars>>

\* ---------------------------------------------------------------- events
ClickPrev ==
    /\ ~prevBtn
    /\ lastEvent' = "clickPrev"
    /\ goToScene(currentSceneIndex - 1, rawData)
    /\ UNCHANGED <<loadState, rawData, dataLoaded>>

ClickNext ==
    /\ ~nextBtn
    /\ lastEvent' = "clickNext"
    /\ goToScene(currentSceneIndex + 1, rawData)
    /\ UNCHANGED <<loadState, rawData, dataLoaded>>

\* the renderers are taken not to throw, so the catch handler does not run
\* after this one
LoadSuccess ==
    /\ loadState = "pending"
    /\ \E data \in CsvFiles :
         /\ rawData' = ParseCsv(data)
         /\ dataLoaded' = TRUE
         /\ loadState' = "loaded"
         /\ lastEvent' = "loadOk"
         /\ goToScene(currentSceneIndex, ParseCsv(data))

LoadFailKeepsNext ==
    /\ loadState = "pending"
    /\ loadState' = "failed"
    /\ vizTitle' = ErrorTitle
    /\ prevBtn' = TRUE
    /\ lastEvent' = "loadFail"
    /\ lastCall' = NoCall
    /\ invoked' = 0
    /\ UNCHANGED <<rawData, dataLoaded, currentSceneIndex, sceneIndicator,
                   nextBtn, canvasVars, sceneVars>>

LoadFail ==
    /\ loadState = "pending"
    /\ loadState' = "failed"
    /\ vizTitle' = ErrorTitle
    /\ prevBtn' = TRUE
    /\ nextBtn' = TRUE
    /\ lastEvent' = "loadFail"
    /\ lastCall' = NoCall
    /\ invoked' = 0
    /\ UNCHANGED <<rawData, dataLoaded, currentSceneIndex, sceneIndicator,
                   canvasVars, sceneVars>>

MetricChange ==
    /\ metricSelect # Absent
    /\ \E i \in 1..Len(options) :
         /\ options[i] # metricSelect
         /\ metricSelect' = options[i]
         /\ SetClosure(updateLine(options[i], rawData, Closure))
    /\ lastEvent' = "change"
    /\ lastCall' = NoCall
    /\ invoked' = 0
    /\ UNCHANGED <<loadState, rawData, dataLoaded, navVars, gScene, circle>>

MouseOver ==
    /\ \E i \in 1..Len(hoverPoints) :
         /\ hovered # i
         /\ hovered' = i
    /\ circle' = 1
    /\ lastEvent' = "mouseover"
    /\ lastCall' = NoCall
    /\ invoked' = 0
    /\ UNCHANGED <<loadState, rawData, dataLoaded, navVars, gScene, dataLines,
                   hoverPoints, metricSelect, yDomain>>

MouseOut ==
    /\ hovered # 0
    /\ hovered' = 0
    /\ circle' = 0
    /\ lastEvent' = "mouseout"
    /\ lastCall' = NoCall
    /\ invoked' = 0
    /\ UNCHANGED <<loadState, rawData, dataLoaded, navVars, gScene, dataLines,
                   hoverPoints, metricSelect, yDomain>>

Next ==
    \/ ClickPrev
    \/ ClickNext
    \/ LoadSuccess
    \/ LoadFail
    \/ MetricChange
    \/ MouseOver
    \/ MouseOut

Spec == Init /\ [][Next]_vars

\* goToScene is a global function: a caller other than the two click handlers
\* can pass any index
CallGoToScene ==
    /\ \E index \in -1..Len(scenes) : goToScene(index, rawData)
    /\ lastEvent' = "call"
    /\ UNCHANGED <<loadState, rawData, dataLoaded>>

NextCalls ==
    \/ Next
    \/ CallGoToScene

SpecCalls == Init /\ [][NextCalls]_vars

\* The behaviours in which the user waits for the fetch to settle before the
\* first click: the usual run of the page, a local file being fetched in
\* milliseconds.
Settled == loadState # "pending"

NextSettled ==
    \/ LoadSuccess
    \/ LoadFail
    \/ Settled /\ ClickPrev
    \/ Settled /\ ClickNext
    \/ MetricChange
    \/ MouseOver
    \/ MouseOut

SpecSettled == Init /\ [][NextSettled]_vars

\* ================================================================ claims

\* field of a Record that a metric of scene 4 names
MetricField(metric) ==
    CASE metric = "Urban Population"   -> "urban_population_billion"
      [] metric = "Rural Population"   -> "rural_population_billion"
      [] metric = "Energy Consumption" -> "global_energy_consumption_quads"
      [] metric = "CO2 Emissions"      -> "global_co2_emission_gt"

\* rows of rawData whose year and metric value are both numbers
NumericRows(metric) ==
    {i \in 1..Len(rawData) :
        rawData[i]["year"] # NaN /\ rawData[i][MetricField(metric)] # NaN}

\* line consists of the (year, value) pairs of exactly the numeric rows, in
\* the order of the rows
LineOfNumericRows(line, metric) ==
    /\ Len(line) = Cardinality(NumericRows(metric))
    /\ \E f \in [1..Len(line) -> NumericRows(metric)] :
         /\ \A j, k \in 1..Len(line) : j < k => f[j] < f[k]
         /\ \A k \in 1..Len(line) :
              line[k] = [year  |-> rawData[f[k]]["year"],
                         value |-> rawData[f[k]][MetricField(metric)]]

InYearOrder(line) == \A k \in 1..(Len(line) - 1) : line[k].year <= line[k + 1].year

\* the latest event ran updateLine(metricSelect) of scene 4
UpdatedLine == gScene = 4 /\ (lastEvent = "change" \/ invoked = 4)

\* C1: after goToScene(j), j in 0..3, once the data is loaded, the indicator
\* reads "(j+1) of 4", previous is disabled iff j = 0 and next is disabled
\* iff j = 3.
C1_NavigationMatchesIndex ==
    (dataLoaded /\ lastCall \in 0..3) =>
        /\ currentSceneIndex = lastCall
        /\ sceneIndicator = <<lastCall + 1, 4>>
        /\ prevBtn <=> (lastCall = 0)
        /\ nextBtn <=> (lastCall = 3)

C1_Witness ==
    dataLoaded /\ lastEvent = "clickNext" /\ lastCall = 3 /\ nextBtn /\ ~prevBtn

\* C2: goToScene(i) with i < 0 or i > 3 changes nothing: the index, the
\* canvas, the title, the buttons and the indicator stay, no renderer runs
\* and the error state is not entered.
C2_OutOfRangeIsNoOp ==
    [][(lastCall' # NoCall /\ (lastCall' < 0 \/ lastCall' > 3)) =>
          /\ invoked' = 0
          /\ UNCHANGED <<currentSceneIndex, vizTitle, prevBtn, nextBtn,
                         sceneIndicator, gScene, dataLines, hoverPoints,
                         metricSelect, yDomain, circle, hovered, loadState,
                         rawData, dataLoaded>>]_vars

C2_Witness == lastCall = 4 /\ currentSceneIndex = 3 /\ dataLoaded

\* C3: once the load has failed the title is the error message, both buttons
\* are disabled and no renderer runs, in every later state.
C3_FailureIsTerminal ==
    loadState = "failed" =>
        /\ vizTitle = ErrorTitle
        /\ prevBtn /\ nextBtn
        /\ invoked = 0

C3_Witness == loadState = "failed" /\ lastEvent = "change"

\* C4: while the fetch is pending no click changes currentSceneIndex or runs
\* a renderer: nothing is drawn from the empty initial rawData.
C4_NoRenderBeforeReady ==
    loadState = "pending" =>
        /\ currentSceneIndex = 0
        /\ invoked = 0
        /\ gScene = 0

\* C5: when the load succeeds the scene entered is scene index 0, rendered
\* by renderScene1, whatever events came before.
C5_FirstSceneIsSceneOne ==
    lastEvent = "loadOk" => (currentSceneIndex = 0 /\ invoked = 1)

\* C6: in every reachable state the #metric-select dropdown is in the
\* document if and only if currentSceneIndex is 3.
C6_DropdownOnlyInScene4 ==
    (metricSelect # Absent) <=> (currentSceneIndex = 3)

\* C7: after a successful load g holds only elements of the scene at
\* currentSceneIndex: no data-line or hover-point of scene 4 is on the canvas
\* of scenes 1-3.
C7_NoStaleElements ==
    dataLoaded =>
        /\ gScene = currentSceneIndex + 1
        /\ gScene \in 1..3 => (dataLines = <<>> /\ hoverPoints = <<>>)

\* C8: in scene 4 a metric switch that redraws the line leaves the marker
\* circle hidden (opacity 0).
C8_SwitchHidesMarker ==
    (gScene = 4 /\ lastEvent = "change" /\ NumericRows(metricSelect) # {}) =>
        circle = 0

C10_EmptyMetricLeavesState ==
    [][(gScene = 4 /\ lastEvent' = "change" /\ NumericRows(metricSelect') = {}) =>
          UNCHANGED <<yDomain, dataLines, hoverPoints, circle, hovered, gScene,
                      currentSceneIndex, prevBtn, nextBtn, sceneIndicator,
                      vizTitle, loadState>>]_vars

C10_Witness ==
    /\ gScene = 4 /\ lastEvent = "change" /\ dataLoaded
    /\ NumericRows(metricSelect) = {}
    /\ Len(dataLines) = 1 /\ hovered # 0 /\ circle = 1
====
